---- MODULE Spec2Model ----
(***************************************************************************)
(* A model of velocitas_lib/__init__.py: the utility functions of the      *)
(* Velocitas CLI packages.  Python strings are modelled as sequences of    *)
(* one-character strings, the process environment as a function from       *)
(* variable names to values, and the file system as a set of directories   *)
(* and a map from file paths to contents.                                  *)
(*                                                                         *)
(* The functions are independent of each other, so the module holds one    *)
(* specification per group of functions:                                   *)
(*   SpecText     to_camel_case, create_truncated_string, get_valid_arch   *)
(*   SpecCapture  capture_textfile_area                                    *)
(*   SpecEnv      require_env and its wrappers, get_app_manifest           *)
(*   SpecReplace  replace_in_file                                          *)
(*   SpecDownload download_file                                            *)
(*   SpecLog      get_log_file_name, create_log_file                       *)
(* Every specification leaves the variables of the other groups parked.    *)
(***************************************************************************)
EXTENDS Integers, Sequences, FiniteSets, TLC

VARIABLES
    \* ---- text functions -------------------------------------------------
    t_fn,        \* the function under call
    t_input,     \* its string argument
    t_length,    \* the length argument of create_truncated_string
    t_pc,        \* "call", "returned", "raised", "reapplied"
    t_result,    \* the returned string
    t_error,     \* the raised exception, None when none
    t_again,     \* to_camel_case applied to t_result
    \* ---- capture_textfile_area -----------------------------------------
    c_lines,       \* the lines the file iterator yields
    start_line,    \* argument
    end_line,      \* argument
    map_fn,        \* argument: None or the name of a mapping function
    c_pos,         \* index of the next line the for loop reads
    is_capturing,  \* local variable
    area_content,  \* local variable, the list returned
    c_pc,          \* "scan", "returned"
    \* ---- environment accessors ------------------------------------------
    env,         \* os.environ: variable name -> value, Unset when not set
    e_fn,        \* the accessor under call
    e_name,      \* the argument of require_env
    e_pc,        \* "idle", "returned", "raised"
    e_result,    \* the string returned
    e_object,    \* the decoded JSON value returned
    e_error,     \* the exception raised
    \* ---- replace_in_file -----------------------------------------------
    r_file,      \* the content of the file at file_path, Missing when absent
    r_original,  \* its content when the call began
    text,        \* argument
    replacement, \* argument
    buffer,      \* local variable: the replaced lines
    r_rpos,      \* index of the next line the reading loop reads
    r_wpos,      \* index of the next line of buffer the writing loop writes
    r_pc,        \* "open_r", "read", "write", "returned", "raised"
    r_phase,     \* the phase an exception was raised in
    \* ---- the file system of download_file and create_log_file -----------
    dirs,        \* the directories that exist, as sequences of names
    files,       \* the regular files that exist: path -> content
    \* ---- download_file --------------------------------------------------
    local_file_path,  \* argument
    d_body,      \* the body of the response, None before it arrived
    d_sent,      \* the number of bytes iter_content has yielded
    d_pc,        \* "get", "makedirs", "open", "stream", "returned", "raised"
    d_error,     \* the exception raised
    \* ---- create_log_file ------------------------------------------------
    service_id,     \* argument
    runtime_id,     \* argument
    log_file_name,  \* local variable
    l_pc,           \* "idle", "name", "makedirs", "open", "returned", "raised"
    l_handle,       \* the key of the file the returned handle writes to
    l_before,       \* what that file held before it was opened, or Missing
    l_error         \* the exception raised

textVars == <<t_fn, t_input, t_length, t_pc, t_result, t_error, t_again>>
capVars == <<c_lines, start_line, end_line, map_fn, c_pos, is_capturing,
             area_content, c_pc>>

envVars == <<env, e_fn, e_name, e_pc, e_result, e_object, e_error>>

replVars == <<r_file, r_original, text, replacement, buffer, r_rpos, r_wpos,
              r_pc, r_phase>>

fsVars == <<dirs, files>>
downVars == <<local_file_path, d_body, d_sent, d_pc, d_error>>

logVars == <<service_id, runtime_id, log_file_name, l_pc, l_handle, l_before,
             l_error>>

vars == <<textVars, capVars, envVars, replVars, fsVars, downVars, logVars>>

None == "None"

(***************************************************************************)
(* Bounds of the model.                                                    *)
(***************************************************************************)
MaxStrLen == 4
MaxFragments == 3
MaxLines == 5
MaxFileLen == 4
MaxBodyLen == 4
MaxLogLen == 2

(***************************************************************************)
(* Python str helpers.                                                     *)
(***************************************************************************)
RECURSIVE SeqsUpTo(_, _)
SeqsUpTo(S, n) ==
    IF n = 0 THEN {<<>>}
    ELSE LET shorter == SeqsUpTo(S, n - 1)
         IN  shorter \cup {Append(s, c) : s \in {x \in shorter : Len(x) = n - 1}, c \in S}

RECURSIVE Concat(_)
Concat(parts) ==
    IF parts = <<>> THEN <<>> ELSE Head(parts) \o Concat(Tail(parts))

\* str.lower() of one character
LowerChar(c) ==
    CASE c = "A" -> "a"
      [] c = "B" -> "b"
      [] OTHER -> c

\* str.upper() of one character
UpperChar(c) ==
    CASE c = "a" -> "A"
      [] c = "b" -> "B"
      [] OTHER -> c

lower(s) == [i \in 1..Len(s) |-> LowerChar(s[i])]

\* str.capitalize(): first character upper-cased, the rest lower-cased
capitalize(s) ==
    [i \in 1..Len(s) |-> IF i = 1 THEN UpperChar(s[i]) ELSE LowerChar(s[i])]

\* str.split(sep) for a one-character separator: never returns an empty list
RECURSIVE SplitFrom(_, _, _, _)
SplitFrom(s, sep, i, cur) ==
    IF i > Len(s) THEN <<cur>>
    ELSE IF s[i] = sep THEN <<cur>> \o SplitFrom(s, sep, i + 1, <<>>)
    ELSE SplitFrom(s, sep, i + 1, Append(cur, s[i]))

split(s, sep) == SplitFrom(s, sep, 1, <<>>)

\* t in s (substring test)
Contains(s, t) ==
    \E i \in 0..(Len(s) - Len(t)) : SubSeq(s, i + 1, i + Len(t)) = t

\* s[start:] with Python's index normalisation
SliceFrom(s, start) ==
    LET n == Len(s)
        b == IF start < 0 THEN (IF start + n < 0 THEN 0 ELSE start + n)
             ELSE (IF start > n THEN n ELSE start)
    IN  SubSeq(s, b + 1, n)

(***************************************************************************)
(* to_camel_case                                                           *)
(***************************************************************************)
\* the segments are upper-cased at their first character and otherwise kept
to_camel_case_keepCase(snake_str) ==
    LET segs == split(snake_str, "-")
    IN  Concat([i \in 1..Len(segs) |->
                  [k \in 1..Len(segs[i]) |->
                      IF k = 1 THEN UpperChar(segs[i][k]) ELSE segs[i][k]]])

to_camel_case(snake_str) ==
    LET segs == split(lower(snake_str), "-")
    IN  Concat([i \in 1..Len(segs) |-> capitalize(segs[i])])

(***************************************************************************)
(* create_truncated_string                                                 *)
(***************************************************************************)
Ellipsis == <<".", ".", ".">>

create_truncated_string(input, length) ==
    IF Len(input) < length THEN input
    ELSE Ellipsis \o SliceFrom(input, (-length) + 3)

(***************************************************************************)
(* get_valid_arch                                                          *)
(***************************************************************************)
X86_64 == <<"x", "8", "6", "_", "6", "4">>
AMD64 == <<"a", "m", "d", "6", "4">>
AARCH64 == <<"a", "a", "r", "c", "h", "6", "4">>
ARM64 == <<"a", "r", "m", "6", "4">>

\* the two families tested in the opposite order
get_valid_arch_armFirst(arch) ==
    IF Contains(arch, AARCH64) \/ Contains(arch, ARM64)
    THEN [ok |-> TRUE, value |-> AARCH64]
    ELSE IF Contains(arch, X86_64) \/ Contains(arch, AMD64)
    THEN [ok |-> TRUE, value |-> X86_64]
    ELSE [ok |-> FALSE, value |-> "ValueError"]

\* the value returned, or the exception raised
get_valid_arch(arch) ==
    IF Contains(arch, X86_64) \/ Contains(arch, AMD64)
    THEN [ok |-> TRUE, value |-> X86_64]
    ELSE IF Contains(arch, AARCH64) \/ Contains(arch, ARM64)
    THEN [ok |-> TRUE, value |-> AARCH64]
    ELSE [ok |-> FALSE, value |-> "ValueError"]

(***************************************************************************)
(* The inputs of the text functions.                                       *)
(***************************************************************************)
Chars == {"a", "B", "-", "1"}
Strings == SeqsUpTo(Chars, MaxStrLen)
Lengths == 0..(MaxStrLen + 2)

\* pieces of architecture names; "arm6" followed by "4v8" spells "arm64v8"
ArchFragments ==
    { X86_64, AMD64, AARCH64, ARM64,
      <<"a", "r", "m", "6">>, <<"4", "v", "8">>,
      <<"m", "i", "p", "s">>, <<"/">> }

ArchStrings ==
    {Concat(fs) : fs \in SeqsUpTo(ArchFragments, MaxFragments)}

TextFunctions == {"to_camel_case", "create_truncated_string", "get_valid_arch"}

ParkText ==
    /\ t_fn = None /\ t_input = None /\ t_length = 0 /\ t_pc = None
    /\ t_result = None /\ t_error = None /\ t_again = None

ParkCapture ==
    /\ c_lines = None /\ start_line = None /\ end_line = None
    /\ map_fn = None /\ c_pos = 0 /\ is_capturing = FALSE
    /\ area_content = None /\ c_pc = None

ParkEnv ==
    /\ env = None /\ e_fn = None /\ e_name = None /\ e_pc = None
    /\ e_result = None /\ e_object = None /\ e_error = None

ParkReplace ==
    /\ r_file = None /\ r_original = None /\ text = None /\ replacement = None
    /\ buffer = None /\ r_rpos = 0 /\ r_wpos = 0 /\ r_pc = None /\ r_phase = None

ParkFs == dirs = {} /\ files = <<>>

ParkDownload ==
    /\ local_file_path = None /\ d_body = None /\ d_sent = 0 /\ d_pc = None
    /\ d_error = None

ParkLog ==
    /\ service_id = None /\ runtime_id = None /\ log_file_name = None
    /\ l_pc = None /\ l_handle = None /\ l_before = None /\ l_error = None

InitText ==
    /\ ParkCapture /\ ParkEnv /\ ParkReplace /\ ParkFs /\ ParkDownload /\ ParkLog
    /\ t_fn \in TextFunctions
    /\ t_input \in (IF t_fn = "get_valid_arch" THEN ArchStrings ELSE Strings)
    /\ t_length \in (IF t_fn = "create_truncated_string" THEN Lengths ELSE {0})
    /\ t_pc = "call"
    /\ t_result = None
    /\ t_error = None
    /\ t_again = None

CallToCamelCase ==
    /\ t_pc = "call" /\ t_fn = "to_camel_case"
    /\ t_result' = to_camel_case(t_input)
    /\ t_pc' = "returned"
    /\ UNCHANGED <<t_fn, t_input, t_length, t_error, t_again>>
    /\ UNCHANGED <<capVars, envVars, replVars, fsVars, downVars, logVars>>

\* the caller feeds the result back in
ReapplyToCamelCase ==
    /\ t_pc = "returned" /\ t_fn = "to_camel_case"
    /\ t_again' = to_camel_case(t_result)
    /\ t_pc' = "reapplied"
    /\ UNCHANGED <<t_fn, t_input, t_length, t_result, t_error>>
    /\ UNCHANGED <<capVars, envVars, replVars, fsVars, downVars, logVars>>

CallCreateTruncatedString ==
    /\ t_pc = "call" /\ t_fn = "create_truncated_string"
    /\ t_result' = create_truncated_string(t_input, t_length)
    /\ t_pc' = "returned"
    /\ UNCHANGED <<t_fn, t_input, t_length, t_error, t_again>>
    /\ UNCHANGED <<capVars, envVars, replVars, fsVars, downVars, logVars>>

CallGetValidArch ==
    /\ t_pc = "call" /\ t_fn = "get_valid_arch"
    /\ LET r == get_valid_arch(t_input)
       IN  IF r.ok
           THEN /\ t_result' = r.value
                /\ t_pc' = "returned"
                /\ UNCHANGED t_error
           ELSE /\ t_error' = r.value
                /\ t_pc' = "raised"
                /\ UNCHANGED t_result
    /\ UNCHANGED <<t_fn, t_input, t_length, t_again>>
    /\ UNCHANGED <<capVars, envVars, replVars, fsVars, downVars, logVars>>

NextText ==
    \/ CallToCamelCase
    \/ ReapplyToCamelCase
    \/ CallCreateTruncatedString
    \/ CallGetValidArch

SpecText == InitText /\ [][NextText]_vars

(***************************************************************************)
(* capture_textfile_area                                                   *)
(***************************************************************************)
IsSpace(c) == c \in {" ", "\n", "\t", "\r"}

\* str.rstrip()
RECURSIVE rstrip(_)
rstrip(s) ==
    IF s # <<>> /\ IsSpace(s[Len(s)]) THEN rstrip(SubSeq(s, 1, Len(s) - 1)) ELSE s

\* str.lstrip()
RECURSIVE lstrip(_)
lstrip(s) ==
    IF s # <<>> /\ IsSpace(s[1]) THEN lstrip(Tail(s)) ELSE s

\* str.strip()
strip(s) == lstrip(rstrip(s))

\* the mapping functions a caller may pass
upper(s) == [i \in 1..Len(s) |-> UpperChar(s[i])]
MapFns == {None, "upper"}
ApplyMapFn(fn, line) == IF fn = "upper" THEN upper(line) ELSE line

\* the branch of the if/elif chain a line takes
LineBranch(line, start, end) ==
    IF strip(line) = start THEN "start"
    ELSE IF strip(line) = end THEN "end"
    ELSE "other"

\* the captured line is trimmed on both sides
CapturedLine_strip(line, fn) ==
    LET trimmed == strip(line)
    IN  IF fn # None THEN ApplyMapFn(fn, trimmed) ELSE trimmed

\* what the last branch appends for a line
CapturedLine(line, fn) ==
    LET trimmed == rstrip(line)
    IN  IF fn # None THEN ApplyMapFn(fn, trimmed) ELSE trimmed

\* the lines of the files read: each ends with its newline
FileLines ==
    { <<"S", "\n">>, <<" ", "S", " ", "\n">>, <<"E", "\n">>,
      <<" ", "b", " ", "\n">>, <<"\n">> }
StartLines == { <<"S">>, <<>> }
EndLines == { <<"E">>, <<"S">> }

InitCapture ==
    /\ ParkText /\ ParkEnv /\ ParkReplace /\ ParkFs /\ ParkDownload
    /\ ParkLog
    /\ c_lines \in SeqsUpTo(FileLines, MaxLines)
    /\ start_line \in StartLines
    /\ end_line \in EndLines
    /\ map_fn \in MapFns
    /\ c_pos = 1
    /\ is_capturing = FALSE
    /\ area_content = <<>>
    /\ c_pc = "scan"

Scanning == c_pc = "scan" /\ c_pos <= Len(c_lines)

ScanStartLine ==
    /\ Scanning
    /\ LineBranch(c_lines[c_pos], start_line, end_line) = "start"
    /\ is_capturing' = TRUE
    /\ c_pos' = c_pos + 1
    /\ UNCHANGED <<c_lines, start_line, end_line, map_fn, area_content, c_pc>>
    /\ UNCHANGED <<textVars, envVars, replVars, fsVars, downVars, logVars>>

ScanEndLine ==
    /\ Scanning
    /\ LineBranch(c_lines[c_pos], start_line, end_line) = "end"
    /\ is_capturing' = FALSE
    /\ c_pos' = c_pos + 1
    /\ UNCHANGED <<c_lines, start_line, end_line, map_fn, area_content, c_pc>>
    /\ UNCHANGED <<textVars, envVars, replVars, fsVars, downVars, logVars>>

ScanCapturedLine ==
    /\ Scanning
    /\ LineBranch(c_lines[c_pos], start_line, end_line) = "other"
    /\ is_capturing
    /\ area_content' = Append(area_content, CapturedLine(c_lines[c_pos], map_fn))
    /\ c_pos' = c_pos + 1
    /\ UNCHANGED <<c_lines, start_line, end_line, map_fn, is_capturing, c_pc>>
    /\ UNCHANGED <<textVars, envVars, replVars, fsVars, downVars, logVars>>

ScanSkippedLine ==
    /\ Scanning
    /\ LineBranch(c_lines[c_pos], start_line, end_line) = "other"
    /\ ~is_capturing
    /\ c_pos' = c_pos + 1
    /\ UNCHANGED <<c_lines, start_line, end_line, map_fn, is_capturing,
                   area_content, c_pc>>
    /\ UNCHANGED <<textVars, envVars, replVars, fsVars, downVars, logVars>>

ReturnAreaContent ==
    /\ c_pc = "scan" /\ c_pos > Len(c_lines)
    /\ c_pc' = "returned"
    /\ UNCHANGED <<c_lines, start_line, end_line, map_fn, c_pos, is_capturing,
                   area_content>>
    /\ UNCHANGED <<textVars, envVars, replVars, fsVars, downVars, logVars>>

NextCapture ==
    \/ ScanStartLine
    \/ ScanEndLine
    \/ ScanCapturedLine
    \/ ScanSkippedLine
    \/ ReturnAreaContent

SpecCapture == InitCapture /\ [][NextCapture]_vars

(***************************************************************************)
(* The environment accessors.                                              *)
(***************************************************************************)
\* os.getenv(name) is None
Unset == <<"<unset>">>

EnvNames ==
    { "VELOCITAS_WORKSPACE_DIR", "VELOCITAS_PACKAGE_DIR", "VELOCITAS_CACHE_DIR",
      "language", "VELOCITAS_APP_MANIFEST", "VELOCITAS_CACHE_DATA" }

\* decoded JSON values: the Python type, the elements of a list, and the
\* text of any other value
JDict(doc) == [py |-> "dict", items |-> <<>>, repr |-> doc]
JList(elems) == [py |-> "list", items |-> elems, repr |-> ""]
JStr(doc) == [py |-> "str", items |-> <<>>, repr |-> doc]
JInt(doc) == [py |-> "int", items |-> <<>>, repr |-> doc]
JNull == [py |-> "NoneType", items |-> <<>>, repr |-> "null"]

\* the JSON documents the environment may hold, each a string of one token
JsonTexts ==
    { <<"{\"a\":1}">>, <<"[{\"a\":1},{\"b\":2}]">>, <<"[]">>, <<"\"x\"">>,
      <<"[1]">>, <<"[[],{\"a\":1}]">>, <<"1">>, <<"null">>, <<"{">> }

\* json.loads on these documents: the value, or JSONDecodeError
json_loads(doc) ==
    CASE doc = <<"{\"a\":1}">> -> [ok |-> TRUE, value |-> JDict("{\"a\":1}")]
      [] doc = <<"[{\"a\":1},{\"b\":2}]">> ->
           [ok |-> TRUE,
            value |-> JList(<<JDict("{\"a\":1}"), JDict("{\"b\":2}")>>)]
      [] doc = <<"[]">> -> [ok |-> TRUE, value |-> JList(<<>>)]
      [] doc = <<"\"x\"">> -> [ok |-> TRUE, value |-> JStr("x")]
      [] doc = <<"[1]">> -> [ok |-> TRUE, value |-> JList(<<JInt("1")>>)]
      [] doc = <<"[[],{\"a\":1}]">> ->
           [ok |-> TRUE, value |-> JList(<<JList(<<>>), JDict("{\"a\":1}")>>)]
      [] doc = <<"1">> -> [ok |-> TRUE, value |-> JInt("1")]
      [] doc = <<"null">> -> [ok |-> TRUE, value |-> JNull]
      [] OTHER -> [ok |-> FALSE, value |-> JNull]

EnvValues(name) ==
    CASE name = "VELOCITAS_APP_MANIFEST" -> JsonTexts \cup {<<>>}
      [] name = "VELOCITAS_CACHE_DATA" -> {<<"{\"a\":1}">>, <<"[]">>, <<>>}
      [] name = "language" -> {<<"python">>, <<>>}
      [] OTHER -> {<<"/", "ws">>, <<>>}

\* only an unset variable is refused
require_env_unsetOnly(environ, name) ==
    LET var == environ[name]
    IN  IF var = Unset THEN [ok |-> FALSE, value |-> "ValueError"]
        ELSE [ok |-> TRUE, value |-> var]

\* the value returned, or the exception raised; "not var" holds for None
\* and for the empty string
require_env(environ, name) ==
    LET var == environ[name]
    IN  IF var = Unset \/ var = <<>> THEN [ok |-> FALSE, value |-> "ValueError"]
        ELSE [ok |-> TRUE, value |-> var]

get_workspace_dir(environ) == require_env(environ, "VELOCITAS_WORKSPACE_DIR")
get_package_path(environ) == require_env(environ, "VELOCITAS_PACKAGE_DIR")
get_project_cache_dir(environ) == require_env(environ, "VELOCITAS_CACHE_DIR")
get_programming_language(environ) == require_env(environ, "language")

\* the outcome of get_app_manifest: the object returned or the error raised
get_app_manifest(environ) ==
    LET required == require_env(environ, "VELOCITAS_APP_MANIFEST")
        manifest_data == json_loads(required.value)
        data == manifest_data.value
    IN  IF ~required.ok THEN [ok |-> FALSE, error |-> required.value, object |-> JNull]
        ELSE IF ~manifest_data.ok
        THEN [ok |-> FALSE, error |-> "JSONDecodeError", object |-> JNull]
        ELSE IF data.py = "dict"
        THEN [ok |-> TRUE, error |-> None, object |-> data]
        ELSE IF data.py = "list"
        THEN \* manifest_data[0] is evaluated: IndexError on an empty list
             IF Len(data.items) = 0
             THEN [ok |-> FALSE, error |-> "IndexError", object |-> JNull]
             ELSE IF data.items[1].py = "dict"
             THEN [ok |-> TRUE, error |-> None, object |-> data.items[1]]
             ELSE [ok |-> FALSE, error |-> "TypeError", object |-> JNull]
        ELSE [ok |-> FALSE, error |-> "TypeError", object |-> JNull]

\* the outcome of get_cache_data
get_cache_data(environ) ==
    LET required == require_env(environ, "VELOCITAS_CACHE_DATA")
        cache_data == json_loads(required.value)
    IN  IF ~required.ok THEN [ok |-> FALSE, error |-> required.value, object |-> JNull]
        ELSE IF ~cache_data.ok
        THEN [ok |-> FALSE, error |-> "JSONDecodeError", object |-> JNull]
        ELSE IF cache_data.value.py # "dict"
        THEN [ok |-> FALSE, error |-> "TypeError", object |-> JNull]
        ELSE [ok |-> TRUE, error |-> None, object |-> cache_data.value]

InitEnv ==
    /\ ParkText /\ ParkCapture /\ ParkReplace /\ ParkFs /\ ParkDownload
    /\ ParkLog
    /\ env = [n \in EnvNames |-> Unset]
    /\ e_fn = None
    /\ e_name = None
    /\ e_pc = "idle"
    /\ e_result = None
    /\ e_object = JNull
    /\ e_error = None

\* the host process sets or unsets a variable between two calls
HostSetsEnv ==
    /\ e_pc = "idle"
    /\ \E n \in EnvNames : \E v \in EnvValues(n) \cup {Unset} :
          env' = [env EXCEPT ![n] = v]
    /\ UNCHANGED <<e_fn, e_name, e_pc, e_result, e_object, e_error>>
    /\ UNCHANGED <<textVars, capVars, replVars, fsVars, downVars, logVars>>

\* a call of an accessor that returns a string
StringCall(fn, name, outcome) ==
    /\ e_pc = "idle"
    /\ e_fn' = fn
    /\ e_name' = name
    /\ IF outcome.ok
       THEN e_pc' = "returned" /\ e_result' = outcome.value /\ e_error' = None
       ELSE e_pc' = "raised" /\ e_result' = None /\ e_error' = outcome.value
    /\ e_object' = JNull
    /\ UNCHANGED env
    /\ UNCHANGED <<textVars, capVars, replVars, fsVars, downVars, logVars>>

\* a call of an accessor that returns a decoded JSON object
ObjectCall(fn, outcome) ==
    /\ e_pc = "idle"
    /\ e_fn' = fn
    /\ e_name' = None
    /\ e_pc' = IF outcome.ok THEN "returned" ELSE "raised"
    /\ e_object' = outcome.object
    /\ e_error' = outcome.error
    /\ e_result' = None
    /\ UNCHANGED env
    /\ UNCHANGED <<textVars, capVars, replVars, fsVars, downVars, logVars>>

CallRequireEnv ==
    \E n \in EnvNames : StringCall("require_env", n, require_env(env, n))

CallGetWorkspaceDir ==
    StringCall("get_workspace_dir", "VELOCITAS_WORKSPACE_DIR", get_workspace_dir(env))

CallGetPackagePath ==
    StringCall("get_package_path", "VELOCITAS_PACKAGE_DIR", get_package_path(env))

CallGetProjectCacheDir ==
    StringCall("get_project_cache_dir", "VELOCITAS_CACHE_DIR", get_project_cache_dir(env))

CallGetProgrammingLanguage ==
    StringCall("get_programming_language", "language", get_programming_language(env))

CallGetAppManifest == ObjectCall("get_app_manifest", get_app_manifest(env))

CallGetCacheData == ObjectCall("get_cache_data", get_cache_data(env))

\* the caller takes the result, or catches the exception, and goes on
HostContinues ==
    /\ e_pc \in {"returned", "raised"}
    /\ e_pc' = "idle"
    /\ e_fn' = None /\ e_name' = None
    /\ e_result' = None /\ e_object' = JNull /\ e_error' = None
    /\ UNCHANGED env
    /\ UNCHANGED <<textVars, capVars, replVars, fsVars, downVars, logVars>>

NextEnv ==
    \/ HostSetsEnv
    \/ CallRequireEnv
    \/ CallGetWorkspaceDir
    \/ CallGetPackagePath
    \/ CallGetProjectCacheDir
    \/ CallGetProgrammingLanguage
    \/ CallGetAppManifest
    \/ CallGetCacheData
    \/ HostContinues

SpecEnv == InitEnv /\ [][NextEnv]_vars

(***************************************************************************)
(* replace_in_file                                                         *)
(*                                                                         *)
(* The file is opened in text mode with universal newlines: on reading,    *)
(* "\r\n" and "\r" become "\n"; on writing (POSIX) "\n" stays "\n".        *)
(***************************************************************************)
Missing == <<"<missing>">>

\* a "\r\n" or "\r" at position i decoded as "\n"
RECURSIVE TranslateNewlines(_, _)
TranslateNewlines(s, i) ==
    IF i > Len(s) THEN <<>>
    ELSE IF s[i] = "\r"
    THEN IF i < Len(s) /\ s[i + 1] = "\n"
         THEN <<"\n">> \o TranslateNewlines(s, i + 2)
         ELSE <<"\n">> \o TranslateNewlines(s, i + 1)
    ELSE <<s[i]>> \o TranslateNewlines(s, i + 1)

\* the lines of a decoded text, each with its "\n" when it has one
RECURSIVE SplitKeepEnds(_, _, _)
SplitKeepEnds(s, i, cur) ==
    IF i > Len(s) THEN (IF cur = <<>> THEN <<>> ELSE <<cur>>)
    ELSE IF s[i] = "\n" THEN <<Append(cur, "\n")>> \o SplitKeepEnds(s, i + 1, <<>>)
    ELSE SplitKeepEnds(s, i + 1, Append(cur, s[i]))

\* the lines "for line in open(file_path)" yields for a file content
TextLines(content) == SplitKeepEnds(TranslateNewlines(content, 1), 1, <<>>)

\* str.replace for a non-empty old: non-overlapping matches, left to right
RECURSIVE ReplaceFrom(_, _, _, _)
ReplaceFrom(s, old, new, i) ==
    IF i > Len(s) THEN <<>>
    ELSE IF i + Len(old) - 1 <= Len(s) /\ SubSeq(s, i, i + Len(old) - 1) = old
    THEN new \o ReplaceFrom(s, old, new, i + Len(old))
    ELSE <<s[i]>> \o ReplaceFrom(s, old, new, i + 1)

\* only the first match is replaced
RECURSIVE ReplaceFirstFrom(_, _, _, _)
ReplaceFirstFrom(s, old, new, i) ==
    IF i > Len(s) THEN <<>>
    ELSE IF i + Len(old) - 1 <= Len(s) /\ SubSeq(s, i, i + Len(old) - 1) = old
    THEN new \o SubSeq(s, i + Len(old), Len(s))
    ELSE <<s[i]>> \o ReplaceFirstFrom(s, old, new, i + 1)

str_replace_first(s, old, new) ==
    IF old = <<>> THEN new \o s
    ELSE ReplaceFirstFrom(s, old, new, 1)

\* str.replace(old, new); an empty old matches before every character and
\* at the end
str_replace(s, old, new) ==
    IF old = <<>>
    THEN new \o Concat([i \in 1..Len(s) |-> <<s[i]>> \o new])
    ELSE ReplaceFrom(s, old, new, 1)

FileChars == {"a", "b", "\n", "\r"}
FileContents == SeqsUpTo(FileChars, MaxFileLen) \cup {Missing}
SearchTexts == { <<"a">>, <<"a", "a">>, <<"\n">>, <<"\n", "a">>, <<>> }
Replacements == { <<>>, <<"b">>, <<"a", "a">>, <<"\n">> }

InitReplace ==
    /\ ParkText /\ ParkCapture /\ ParkEnv /\ ParkFs /\ ParkDownload
    /\ ParkLog
    /\ r_file \in FileContents
    /\ r_original = r_file
    /\ text \in SearchTexts
    /\ replacement \in Replacements
    /\ buffer = <<>>
    /\ r_rpos = 1
    /\ r_wpos = 1
    /\ r_pc = "open_r"
    /\ r_phase = None

ReplRaise(phase) ==
    /\ r_pc' = "raised"
    /\ r_phase' = phase

\* open(file_path, encoding="utf-8")
OpenForReading ==
    /\ r_pc = "open_r"
    /\ IF r_file = Missing
       THEN ReplRaise("open_r")
       ELSE r_pc' = "read" /\ UNCHANGED r_phase
    /\ UNCHANGED <<r_file, r_original, text, replacement, buffer, r_rpos, r_wpos>>
    /\ UNCHANGED <<textVars, capVars, envVars, fsVars, downVars, logVars>>

\* the file exists and cannot be opened for reading
OpenForReadingFails ==
    /\ r_pc = "open_r" /\ r_file # Missing
    /\ ReplRaise("open_r")
    /\ UNCHANGED <<r_file, r_original, text, replacement, buffer, r_rpos, r_wpos>>
    /\ UNCHANGED <<textVars, capVars, envVars, fsVars, downVars, logVars>>

\* one turn of the reading loop
ReadLine ==
    /\ r_pc = "read" /\ r_rpos <= Len(TextLines(r_file))
    /\ buffer' = Append(buffer, str_replace(TextLines(r_file)[r_rpos], text, replacement))
    /\ r_rpos' = r_rpos + 1
    /\ UNCHANGED <<r_file, r_original, text, replacement, r_wpos, r_pc, r_phase>>
    /\ UNCHANGED <<textVars, capVars, envVars, fsVars, downVars, logVars>>

\* reading or decoding the next line fails
ReadLineFails ==
    /\ r_pc = "read" /\ r_rpos <= Len(TextLines(r_file))
    /\ ReplRaise("read")
    /\ UNCHANGED <<r_file, r_original, text, replacement, buffer, r_rpos, r_wpos>>
    /\ UNCHANGED <<textVars, capVars, envVars, fsVars, downVars, logVars>>

\* open(file_path, mode="w", encoding="utf-8") after the reading loop ended
OpenForWriting ==
    /\ r_pc = "read" /\ r_rpos > Len(TextLines(r_file))
    /\ r_file' = <<>>
    /\ r_pc' = "write"
    /\ UNCHANGED <<r_original, text, replacement, buffer, r_rpos, r_wpos, r_phase>>
    /\ UNCHANGED <<textVars, capVars, envVars, fsVars, downVars, logVars>>

OpenForWritingFails ==
    /\ r_pc = "read" /\ r_rpos > Len(TextLines(r_file))
    /\ ReplRaise("open_w")
    /\ UNCHANGED <<r_file, r_original, text, replacement, buffer, r_rpos, r_wpos>>
    /\ UNCHANGED <<textVars, capVars, envVars, fsVars, downVars, logVars>>

\* one turn of the writing loop
WriteLine ==
    /\ r_pc = "write" /\ r_wpos <= Len(buffer)
    /\ r_file' = r_file \o buffer[r_wpos]
    /\ r_wpos' = r_wpos + 1
    /\ UNCHANGED <<r_original, text, replacement, buffer, r_rpos, r_pc, r_phase>>
    /\ UNCHANGED <<textVars, capVars, envVars, fsVars, downVars, logVars>>

\* a write fails; the with statement closes the file
WriteLineFails ==
    /\ r_pc = "write" /\ r_wpos <= Len(buffer)
    /\ ReplRaise("write")
    /\ UNCHANGED <<r_file, r_original, text, replacement, buffer, r_rpos, r_wpos>>
    /\ UNCHANGED <<textVars, capVars, envVars, fsVars, downVars, logVars>>

\* the with statement closes the file and the function returns
CloseAndReturn ==
    /\ r_pc = "write" /\ r_wpos > Len(buffer)
    /\ r_pc' = "returned"
    /\ UNCHANGED <<r_file, r_original, text, replacement, buffer, r_rpos, r_wpos,
                   r_phase>>
    /\ UNCHANGED <<textVars, capVars, envVars, fsVars, downVars, logVars>>

NextReplace ==
    \/ OpenForReading
    \/ OpenForReadingFails
    \/ ReadLine
    \/ ReadLineFails
    \/ OpenForWriting
    \/ OpenForWritingFails
    \/ WriteLine
    \/ WriteLineFails
    \/ CloseAndReturn

SpecReplace == InitReplace /\ [][NextReplace]_vars

(***************************************************************************)
(* Paths and the file system.                                              *)
(*                                                                         *)
(* A path string is a sequence of tokens: pieces of names and the          *)
(* separator "/".  The file system knows a directory or a file by the      *)
(* names of its path.  The root and the working directory always exist.    *)
(* No regular file stands where the functions need a directory, and no     *)
(* directory where they open a file.                                       *)
(***************************************************************************)
Sep == "/"

\* the key of a path in the file system: its names, each the tokens between
\* two separators, after the root when the path is absolute
Root == <<Sep>>

Names(p) == SelectSeq(split(p, Sep), LAMBDA seg : seg # <<>>)

PathKey(p) ==
    IF p # <<>> /\ p[1] = Sep THEN <<Root>> \o Names(p) ELSE Names(p)

\* str.rstrip("/")
RECURSIVE rstrip_sep(_)
rstrip_sep(p) ==
    IF p # <<>> /\ p[Len(p)] = Sep THEN rstrip_sep(SubSeq(p, 1, Len(p) - 1)) ELSE p

\* the index after the last "/" of p, 1 when p has none
RECURSIVE AfterLastSep(_, _)
AfterLastSep(p, i) ==
    IF i = 0 THEN 1
    ELSE IF p[i] = Sep THEN i + 1
    ELSE AfterLastSep(p, i - 1)

\* os.path.split(p)[0], which is os.path.dirname(p)
path_dirname(p) ==
    LET head == SubSeq(p, 1, AfterLastSep(p, Len(p)) - 1)
    IN  IF head # <<>> /\ rstrip_sep(head) # <<>> THEN rstrip_sep(head) ELSE head

\* os.path.join(a, b)
path_join2(a, b) ==
    IF b # <<>> /\ b[1] = Sep THEN b
    ELSE IF a = <<>> \/ a[Len(a)] = Sep THEN a \o b
    ELSE a \o <<Sep>> \o b

RECURSIVE path_join(_)
path_join(parts) ==
    IF Len(parts) = 1 THEN parts[1]
    ELSE path_join(<<path_join2(parts[1], parts[2])>> \o SubSeq(parts, 3, Len(parts)))

IsDir(ds, key) == key \in ds \cup {<<>>, <<Root>>}

\* the directories at and above key
Ancestors(key) == {SubSeq(key, 1, n) : n \in 1..Len(key)} \ {<<Root>>}

\* os.makedirs(name, exist_ok=True): mkdir("") raises FileNotFoundError
makedirs(ds, name) ==
    IF name = <<>>
    THEN [ok |-> FALSE, error |-> "FileNotFoundError", dirs |-> ds]
    ELSE [ok |-> TRUE, error |-> None, dirs |-> ds \cup Ancestors(PathKey(name))]

\* the file is opened without being truncated
open_keep(ds, fs, name) ==
    LET key == PathKey(name)
    IN  IF ~IsDir(ds, SubSeq(key, 1, Len(key) - 1))
        THEN [ok |-> FALSE, error |-> "FileNotFoundError", files |-> fs]
        ELSE [ok |-> TRUE, error |-> None,
              files |-> IF key \in DOMAIN fs THEN fs
                        ELSE [k \in DOMAIN fs \cup {key} |->
                                IF k = key THEN <<>> ELSE fs[k]]]

\* open(name, "w") or open(name, "wb"): the directory must exist; the file
\* is created, or truncated when it exists
open_w(ds, fs, name) ==
    LET key == PathKey(name)
    IN  IF ~IsDir(ds, SubSeq(key, 1, Len(key) - 1))
        THEN [ok |-> FALSE, error |-> "FileNotFoundError", files |-> fs]
        ELSE [ok |-> TRUE, error |-> None,
              files |-> [k \in DOMAIN fs \cup {key} |->
                           IF k = key THEN <<>> ELSE fs[k]]]

\* file.write(data) on the handle of key
file_write(fs, key, data) == [fs EXCEPT ![key] = @ \o data]

\* every subset of ds that holds the ancestors of its members
ClosedDirSets(ds) ==
    {d \in SUBSET ds : \A k \in d : Ancestors(k) \subseteq d}

\* every file system state with files at some of the paths whose
\* directory exists
FileStates(ds, paths, contents) ==
    UNION { [ks -> contents] :
              ks \in SUBSET {PathKey(q) : q \in
                               {x \in paths : IsDir(ds, PathKey(path_dirname(x)))}} }

(***************************************************************************)
(* download_file                                                           *)
(***************************************************************************)
\* the argument of iter_content, 8192 in the code, scaled down
chunk_size == 2

Bytes == {0, 1}
Bodies == SeqsUpTo(Bytes, MaxBodyLen)

\* a bare file name, a file in a directory, a file in nested directories
DownloadPaths ==
    { <<"f">>, <<"d", Sep, "f">>, <<"d", Sep, "e", Sep, "f">>,
      <<Sep, "d", Sep, "f">> }
DownloadDirs ==
    { PathKey(<<"d">>), PathKey(<<"d", Sep, "e">>), PathKey(<<Sep, "d">>) }
OldContents == { <<>>, <<1, 1, 1>> }

\* the next chunk iter_content yields
NextChunk(body, sent) ==
    SubSeq(body, sent + 1,
           IF sent + chunk_size < Len(body) THEN sent + chunk_size ELSE Len(body))

InitDownload ==
    /\ ParkText /\ ParkCapture /\ ParkEnv /\ ParkReplace /\ ParkLog
    /\ local_file_path \in DownloadPaths
    /\ dirs \in ClosedDirSets(DownloadDirs)
    /\ files \in FileStates(dirs, {local_file_path}, OldContents)
    /\ d_body = None
    /\ d_sent = 0
    /\ d_pc = "get"
    /\ d_error = None

\* requests.get(uri, timeout=30) returns a response
ResponseArrives ==
    /\ d_pc = "get"
    /\ d_body' \in Bodies
    /\ d_pc' = "makedirs"
    /\ UNCHANGED <<local_file_path, d_sent, d_error, fsVars>>
    /\ UNCHANGED <<textVars, capVars, envVars, replVars, logVars>>

\* requests.get raises: no connection, or no answer within the timeout
RequestFails ==
    /\ d_pc = "get"
    /\ d_pc' = "raised"
    /\ d_error' = "RequestException"
    /\ UNCHANGED <<local_file_path, d_body, d_sent, fsVars>>
    /\ UNCHANGED <<textVars, capVars, envVars, replVars, logVars>>

\* os.makedirs(os.path.split(local_file_path)[0], exist_ok=True)
MakeParentDirs ==
    /\ d_pc = "makedirs"
    /\ LET made == makedirs(dirs, path_dirname(local_file_path))
       IN  /\ dirs' = made.dirs
           /\ IF made.ok
              THEN d_pc' = "open" /\ UNCHANGED d_error
              ELSE d_pc' = "raised" /\ d_error' = made.error
    /\ UNCHANGED <<local_file_path, d_body, d_sent, files>>
    /\ UNCHANGED <<textVars, capVars, envVars, replVars, logVars>>

\* open(local_file_path, "wb")
OpenOutfile ==
    /\ d_pc = "open"
    /\ LET opened == open_w(dirs, files, local_file_path)
       IN  /\ files' = opened.files
           /\ IF opened.ok
              THEN d_pc' = "stream" /\ UNCHANGED d_error
              ELSE d_pc' = "raised" /\ d_error' = opened.error
    /\ UNCHANGED <<local_file_path, d_body, d_sent, dirs>>
    /\ UNCHANGED <<textVars, capVars, envVars, replVars, logVars>>

\* one turn of the loop over iter_content(chunk_size=8192)
WriteChunk ==
    /\ d_pc = "stream" /\ d_sent < Len(d_body)
    /\ files' = file_write(files, PathKey(local_file_path), NextChunk(d_body, d_sent))
    /\ d_sent' = d_sent + Len(NextChunk(d_body, d_sent))
    /\ UNCHANGED <<local_file_path, d_body, d_pc, d_error, dirs>>
    /\ UNCHANGED <<textVars, capVars, envVars, replVars, logVars>>

\* the connection breaks while the body is streamed
StreamFails ==
    /\ d_pc = "stream" /\ d_sent < Len(d_body)
    /\ d_pc' = "raised"
    /\ d_error' = "RequestException"
    /\ UNCHANGED <<local_file_path, d_body, d_sent, fsVars>>
    /\ UNCHANGED <<textVars, capVars, envVars, replVars, logVars>>

\* the body is exhausted: both with statements exit
CloseOutfile ==
    /\ d_pc = "stream" /\ d_sent = Len(d_body)
    /\ d_pc' = "returned"
    /\ UNCHANGED <<local_file_path, d_body, d_sent, d_error, fsVars>>
    /\ UNCHANGED <<textVars, capVars, envVars, replVars, logVars>>

NextDownload ==
    \/ ResponseArrives
    \/ RequestFails
    \/ MakeParentDirs
    \/ OpenOutfile
    \/ WriteChunk
    \/ StreamFails
    \/ CloseOutfile

SpecDownload == InitDownload /\ [][NextDownload]_vars

(***************************************************************************)
(* get_log_file_name and create_log_file                                   *)
(*                                                                         *)
(* The service and runtime identifiers are names: not empty, without "/".  *)
(***************************************************************************)
LogExt == <<".log">>

\* the name of the log file, or the exception of get_workspace_dir
get_log_file_name(environ, service, runtime) ==
    LET workspace == get_workspace_dir(environ)
    IN  IF ~workspace.ok THEN workspace
        ELSE [ok |-> TRUE,
              value |-> path_join(<<workspace.value, <<"logs">>, runtime,
                                    service \o LogExt>>)]

WorkspaceValues == { <<>>, <<Sep, "ws">>, <<"w", Sep>> }
ServiceIds == { <<"svc">>, <<"db">> }
RuntimeIds == { <<"rt">> }
WorkspaceVar == "VELOCITAS_WORKSPACE_DIR"

envCallVars == <<e_fn, e_name, e_pc, e_result, e_object, e_error>>

InitLog ==
    /\ ParkText /\ ParkCapture /\ ParkReplace /\ ParkDownload
    /\ env = [n \in EnvNames |-> Unset]
    /\ e_fn = None /\ e_name = None /\ e_pc = None
    /\ e_result = None /\ e_object = None /\ e_error = None
    /\ dirs \in ClosedDirSets({PathKey(<<Sep, "ws">>), PathKey(<<"w">>)})
    /\ files = <<>>
    /\ service_id = None
    /\ runtime_id = None
    /\ log_file_name = None
    /\ l_pc = "idle"
    /\ l_handle = None
    /\ l_before = None
    /\ l_error = None

\* the host process sets or unsets VELOCITAS_WORKSPACE_DIR between calls
HostSetsWorkspaceDir ==
    /\ l_pc = "idle"
    /\ \E v \in WorkspaceValues \cup {Unset} : env' = [env EXCEPT ![WorkspaceVar] = v]
    /\ UNCHANGED <<envCallVars, fsVars, logVars>>
    /\ UNCHANGED <<textVars, capVars, replVars, downVars>>

CallCreateLogFile ==
    /\ l_pc = "idle"
    /\ service_id' \in ServiceIds
    /\ runtime_id' \in RuntimeIds
    /\ l_pc' = "name"
    /\ UNCHANGED <<log_file_name, l_handle, l_before, l_error>>
    /\ UNCHANGED <<envVars, fsVars>>
    /\ UNCHANGED <<textVars, capVars, replVars, downVars>>

\* log_file_name = get_log_file_name(service_id, runtime_id)
GetLogFileName ==
    /\ l_pc = "name"
    /\ LET name == get_log_file_name(env, service_id, runtime_id)
       IN  IF name.ok
           THEN /\ log_file_name' = name.value
                /\ l_pc' = "makedirs"
                /\ UNCHANGED l_error
           ELSE /\ l_error' = name.value
                /\ l_pc' = "raised"
                /\ UNCHANGED log_file_name
    /\ UNCHANGED <<service_id, runtime_id, l_handle, l_before>>
    /\ UNCHANGED <<envVars, fsVars>>
    /\ UNCHANGED <<textVars, capVars, replVars, downVars>>

\* os.makedirs(os.path.dirname(log_file_name), exist_ok=True)
MakeLogDirs ==
    /\ l_pc = "makedirs"
    /\ LET made == makedirs(dirs, path_dirname(log_file_name))
       IN  /\ dirs' = made.dirs
           /\ IF made.ok
              THEN l_pc' = "open" /\ UNCHANGED l_error
              ELSE l_pc' = "raised" /\ l_error' = made.error
    /\ UNCHANGED <<service_id, runtime_id, log_file_name, l_handle, l_before>>
    /\ UNCHANGED <<envVars, files>>
    /\ UNCHANGED <<textVars, capVars, replVars, downVars>>

\* return open(log_file_name, "w", encoding="utf-8")
OpenLogFile ==
    /\ l_pc = "open"
    /\ LET opened == open_w(dirs, files, log_file_name)
           key == PathKey(log_file_name)
       IN  /\ files' = opened.files
           /\ IF opened.ok
              THEN /\ l_pc' = "returned"
                   /\ l_handle' = key
                   /\ l_before' = IF key \in DOMAIN files THEN files[key] ELSE Missing
                   /\ UNCHANGED l_error
              ELSE /\ l_pc' = "raised"
                   /\ l_error' = opened.error
                   /\ UNCHANGED <<l_handle, l_before>>
    /\ UNCHANGED <<service_id, runtime_id, log_file_name>>
    /\ UNCHANGED <<envVars, dirs>>
    /\ UNCHANGED <<textVars, capVars, replVars, downVars>>

\* the caller writes to the handle it was given
CallerWritesLog ==
    /\ l_pc = "returned"
    /\ Len(files[l_handle]) < MaxLogLen
    /\ files' = file_write(files, l_handle, <<"x">>)
    /\ UNCHANGED <<envVars, dirs, logVars>>
    /\ UNCHANGED <<textVars, capVars, replVars, downVars>>

\* the caller closes the handle, or catches the exception, and goes on
CallerGoesOn ==
    /\ l_pc \in {"returned", "raised"}
    /\ l_pc' = "idle"
    /\ service_id' = None /\ runtime_id' = None /\ log_file_name' = None
    /\ l_handle' = None /\ l_before' = None /\ l_error' = None
    /\ UNCHANGED <<envVars, fsVars>>
    /\ UNCHANGED <<textVars, capVars, replVars, downVars>>

NextLog ==
    \/ HostSetsWorkspaceDir
    \/ CallCreateLogFile
    \/ GetLogFileName
    \/ MakeLogDirs
    \/ OpenLogFile
    \/ CallerWritesLog
    \/ CallerGoesOn

SpecLog == InitLog /\ [][NextLog]_vars

(***************************************************************************)
(* Properties of the text functions (SpecText).                            *)
(***************************************************************************)
TruncateReturned == t_pc = "returned" /\ t_fn = "create_truncated_string"

\* the rightmost n characters of s
Rightmost(s, n) == SubSeq(s, Len(s) - n + 1, Len(s))

\* C1: create_truncated_string(s, length) returns s unchanged when
\* len(s) < length; otherwise the result has exactly length characters,
\* starts with "..." and ends with the rightmost length-3 characters of s.
C1_TruncateContract ==
    TruncateReturned =>
        IF Len(t_input) < t_length
        THEN t_result = t_input
        ELSE /\ Len(t_result) = t_length
             /\ SubSeq(t_result, 1, 3) = Ellipsis
             /\ t_length >= 3
             /\ SubSeq(t_result, 4, Len(t_result)) = Rightmost(t_input, t_length - 3)

ArchDone == t_fn = "get_valid_arch" /\ t_pc \in {"returned", "raised"}
InX86Family(arch) == Contains(arch, X86_64) \/ Contains(arch, AMD64)
InArmFamily(arch) == Contains(arch, AARCH64) \/ Contains(arch, ARM64)

\* C4 as stated: "x86_64" for every string with an x86 token, "aarch64" for
\* every string with an arm token (also when it holds tokens of both
\* families), ValueError for a string with none of the four tokens.
C4_ArchAsStated ==
    ArchDone =>
        /\ InX86Family(t_input) => (t_pc = "returned" /\ t_result = X86_64)
        /\ InArmFamily(t_input) => (t_pc = "returned" /\ t_result = AARCH64)
        /\ (~InX86Family(t_input) /\ ~InArmFamily(t_input))
              => (t_pc = "raised" /\ t_error = "ValueError")

\* C4 amended: "x86_64" for every string with an x86 token, whatever else it
\* holds; "aarch64" for every string with an arm token and no x86 token;
\* ValueError for a string with none of the four tokens.
C4_ArchX86First ==
    ArchDone =>
        /\ InX86Family(t_input) => (t_pc = "returned" /\ t_result = X86_64)
        /\ (InArmFamily(t_input) /\ ~InX86Family(t_input))
              => (t_pc = "returned" /\ t_result = AARCH64)
        /\ (~InX86Family(t_input) /\ ~InArmFamily(t_input))
              => (t_pc = "raised" /\ t_error = "ValueError")

\* a string with "arm64" and "amd64" has been mapped to "x86_64"
C4_WitnessBothFamilies ==
    /\ ArchDone
    /\ Contains(t_input, ARM64) /\ Contains(t_input, AMD64)
    /\ t_pc = "returned" /\ t_result = X86_64

CamelReapplied == t_fn = "to_camel_case" /\ t_pc = "reapplied"
Hyphen == <<"-">>

\* the number of non-empty hyphen-delimited segments of s
NonEmptySegments(s) ==
    Cardinality({i \in 1..Len(split(s, "-")) : split(s, "-")[i] # <<>>})

\* C5 as stated: whenever r = to_camel_case(s) holds no hyphen,
\* to_camel_case(r) = r; and to_camel_case("") = "".
C5_IdempotentAsStated ==
    /\ (t_fn = "to_camel_case" /\ t_pc = "returned" /\ t_input = <<>>)
          => t_result = <<>>
    /\ (CamelReapplied /\ ~Contains(t_result, Hyphen)) => t_again = t_result

\* C5 amended: for ASCII input, r = to_camel_case(s) never holds a hyphen
\* and to_camel_case(r) is r capitalized (first character upper-cased, all
\* others lower-cased), which is r itself when s has at most one non-empty
\* segment; and to_camel_case("") = "".
C5_ReapplyCapitalizes ==
    /\ (t_fn = "to_camel_case" /\ t_pc \in {"returned", "reapplied"})
          => /\ ~Contains(t_result, Hyphen)
             /\ t_input = <<>> => t_result = <<>>
    /\ CamelReapplied
          => /\ t_again = capitalize(t_result)
             /\ NonEmptySegments(t_input) <= 1 => t_again = t_result

\* a one-segment input with an upper-case letter inside, re-applied
C5_WitnessOneSegment ==
    /\ CamelReapplied
    /\ NonEmptySegments(t_input) = 1
    /\ Contains(t_input, Hyphen) /\ Contains(t_input, <<"a", "B">>)
    /\ t_again = t_result

(***************************************************************************)
(* Properties of capture_textfile_area (SpecCapture).                      *)
(***************************************************************************)
IsStartMarker(i) == strip(c_lines[i]) = start_line
IsEndMarker(i) == strip(c_lines[i]) = end_line
IsMarker(i) == IsStartMarker(i) \/ IsEndMarker(i)

\* capture is active when line i is read: the last marker line before it
\* is a start marker
ActiveAt(i) ==
    \E j \in 1..(i - 1) :
        /\ IsStartMarker(j)
        /\ \A k \in (j + 1)..(i - 1) : ~IsMarker(k)

\* the lines among the first n that are to be captured
RECURSIVE ExpectedArea(_)
ExpectedArea(n) ==
    IF n = 0 THEN <<>>
    ELSE IF ~IsMarker(n) /\ ActiveAt(n)
    THEN Append(ExpectedArea(n - 1),
                IF map_fn = None THEN rstrip(c_lines[n])
                ELSE ApplyMapFn(map_fn, rstrip(c_lines[n])))
    ELSE ExpectedArea(n - 1)

\* the non-marker lines after line i, right-trimmed and mapped
RECURSIVE NonMarkersFrom(_)
NonMarkersFrom(i) ==
    IF i > Len(c_lines) THEN <<>>
    ELSE IF IsMarker(i) THEN NonMarkersFrom(i + 1)
    ELSE <<IF map_fn = None THEN rstrip(c_lines[i])
           ELSE ApplyMapFn(map_fn, rstrip(c_lines[i]))>> \o NonMarkersFrom(i + 1)

StartIndexes == {i \in 1..Len(c_lines) : IsStartMarker(i)}
FirstStart == CHOOSE i \in StartIndexes : \A j \in StartIndexes : i <= j

\* C6: the result holds, in input order, exactly the non-marker lines read
\* while capture is active, each right-trimmed and then mapped; nothing is
\* captured before the first start marker, and when no end marker follows
\* a start marker every later non-marker line is captured.
C6_CapturedArea ==
    c_pc \in {"scan", "returned"} =>
        /\ area_content = ExpectedArea(c_pos - 1)
        /\ (c_pc = "returned" /\ StartIndexes = {}) => area_content = <<>>
        /\ (/\ c_pc = "returned"
            /\ StartIndexes # {}
            /\ \A k \in (FirstStart + 1)..Len(c_lines) :
                   IsEndMarker(k) => IsStartMarker(k))
              => area_content = NonMarkersFrom(FirstStart + 1)

\* a scan that skipped a line, met a start marker, captured and mapped a
\* line with blanks on both sides, met the end marker and skipped a line
C6_WitnessClosedRegion ==
    /\ c_pc = "returned"
    /\ map_fn = "upper"
    /\ \E i, j, k, l \in 1..Len(c_lines) :
          /\ i < j /\ j < k /\ k < l
          /\ \A h \in 1..(i - 1) : ~IsMarker(h)
          /\ i > 1
          /\ IsStartMarker(i)
          /\ c_lines[j] = <<" ", "b", " ", "\n">>
          /\ IsEndMarker(k) /\ ~IsStartMarker(k)
          /\ ~IsMarker(l)
    /\ area_content = << <<" ", "B">> >>

LastRead == c_lines[c_pos - 1]

\* C7 as stated: for every start_line and end_line, after a line whose
\* trimmed content equals end_line capture is off, and after a line whose
\* trimmed content equals start_line capture is on.
C7_MarkersAsStated ==
    (c_pc = "scan" /\ c_pos > 1) =>
        /\ strip(LastRead) = end_line => ~is_capturing
        /\ strip(LastRead) = start_line => is_capturing

\* markers that differ do switch capture on and off: after a line whose
\* trimmed content equals start_line capture is on, after one that equals
\* end_line and not start_line it is off
DistinctMarkersSwitch ==
    (c_pc = "scan" /\ c_pos > 1) =>
        /\ strip(LastRead) = start_line => is_capturing
        /\ (strip(LastRead) = end_line /\ strip(LastRead) # start_line)
              => ~is_capturing

(***************************************************************************)
(* Properties of the environment accessors (SpecEnv).                      *)
(***************************************************************************)
ManifestDone == e_fn = "get_app_manifest" /\ e_pc \in {"returned", "raised"}
ManifestText == env["VELOCITAS_APP_MANIFEST"]
Decoded == json_loads(ManifestText).value
IsDecoded == ManifestText \notin {Unset, <<>>} /\ json_loads(ManifestText).ok

\* C2: for every JSON value decoded from VELOCITAS_APP_MANIFEST,
\* get_app_manifest returns the value when it is an object, its first
\* element when it is a non-empty array whose first element is an object,
\* and raises TypeError, and no other error, in every other case.
C2_ManifestShapes ==
    (ManifestDone /\ IsDecoded) =>
        IF Decoded.py = "dict"
        THEN e_pc = "returned" /\ e_object = Decoded
        ELSE IF /\ Decoded.py = "list"
                /\ Len(Decoded.items) > 0
                /\ Decoded.items[1].py = "dict"
        THEN e_pc = "returned" /\ e_object = Decoded.items[1]
        ELSE e_pc = "raised" /\ e_error = "TypeError"

StringAccessors ==
    { "require_env", "get_workspace_dir", "get_package_path",
      "get_project_cache_dir", "get_programming_language" }

\* the variable each wrapper is documented to read
VariableOf(fn) ==
    CASE fn = "get_workspace_dir" -> "VELOCITAS_WORKSPACE_DIR"
      [] fn = "get_package_path" -> "VELOCITAS_PACKAGE_DIR"
      [] fn = "get_project_cache_dir" -> "VELOCITAS_CACHE_DIR"
      [] fn = "get_programming_language" -> "language"
      [] OTHER -> e_name'

\* C3: require_env(name) raises ValueError exactly when the variable is
\* unset or empty, returns its value unmodified otherwise, and never
\* changes the environment; the four wrappers do the same for their
\* variables.
C3_RequireEnv ==
    [][ (e_pc = "idle" /\ e_fn' \in StringAccessors) =>
          /\ env' = env
          /\ LET value == env[VariableOf(e_fn')]
             IN  IF value = Unset \/ value = <<>>
                 THEN e_pc' = "raised" /\ e_error' = "ValueError"
                 ELSE e_pc' = "returned" /\ e_result' = value
      ]_vars

\* a wrapper returned a value while another variable is set to ""
C3_WitnessWrapper ==
    /\ e_fn = "get_programming_language"
    /\ e_pc = "returned" /\ e_result = <<"python">>
    /\ env["VELOCITAS_WORKSPACE_DIR"] = <<>>
    /\ env["VELOCITAS_CACHE_DIR"] = Unset

(***************************************************************************)
(* Properties of replace_in_file (SpecReplace).  The lines of a file are   *)
(* the lines text mode reads from it.                                      *)
(***************************************************************************)
OriginalLines == TextLines(r_original)
ReplacedLines ==
    [i \in 1..Len(OriginalLines) |-> str_replace(OriginalLines[i], text, replacement)]

\* the file is as it was before an exception of the opening and reading
\* phases, and all lines are in the buffer once the file is open for writing
ReadBeforeWrite ==
    /\ (r_pc \in {"open_r", "read"}) => r_file = r_original
    /\ (r_pc = "raised" /\ r_phase \in {"open_r", "read", "open_w"})
          => r_file = r_original
    /\ (r_pc \in {"write", "returned"} \/ (r_pc = "raised" /\ r_phase = "write"))
          => /\ buffer = ReplacedLines
             /\ r_file = Concat(SubSeq(buffer, 1, r_wpos - 1))

\* C9 as stated: after a successful call the file holds the same number of
\* lines in the same order, each the original line with every occurrence
\* of text replaced; the file is read wholly before it is opened for
\* writing, so only a failure of the write phase can leave it changed.
C9_SameLinesAsStated ==
    /\ r_pc = "returned"
          => /\ Len(TextLines(r_file)) = Len(OriginalLines)
             /\ \A i \in 1..Len(OriginalLines) :
                    TextLines(r_file)[i] = ReplacedLines[i]
    /\ r_pc \in {"open_r", "read", "write", "returned", "raised"} => ReadBeforeWrite

HasLineBreak(s) == \E i \in 1..Len(s) : s[i] \in {"\n", "\r"}

\* no character of s occurs in t
NoCommonChar(s, t) == \A i \in 1..Len(s) : \A j \in 1..Len(t) : s[i] # t[j]

\* C9 amended: after a successful call the file's content is the
\* concatenation, in order, of the original lines, each with every
\* occurrence of text replaced (matches are found within single lines, left
\* to right and without overlap, so that no occurrence is left in a line
\* when the replacement is not empty and shares no character with text);
\* it holds the same number of lines, each the original line so replaced,
\* when text is not empty, neither text nor replacement holds a line break,
\* and no line is replaced by the empty string.  The file is read wholly
\* before it is opened for writing, so only a failure of the write phase
\* can leave it changed.
C9_RewrittenContent ==
    /\ r_pc = "returned"
          => /\ r_file = Concat(ReplacedLines)
             /\ (text # <<>> /\ replacement # <<>> /\ NoCommonChar(text, replacement))
                   => \A i \in 1..Len(buffer) : ~Contains(buffer[i], text)
             /\ (/\ text # <<>>
                 /\ ~HasLineBreak(text) /\ ~HasLineBreak(replacement)
                 /\ \A i \in 1..Len(ReplacedLines) : ReplacedLines[i] # <<>>)
                   => /\ Len(TextLines(r_file)) = Len(OriginalLines)
                      /\ \A i \in 1..Len(OriginalLines) :
                             TextLines(r_file)[i] = ReplacedLines[i]
    /\ r_pc \in {"open_r", "read", "write", "returned", "raised"} => ReadBeforeWrite

\* a two-line file rewritten line by line, a line with two occurrences
C9_WitnessTwoLines ==
    /\ r_pc = "returned"
    /\ r_original = <<"a", "a", "\n", "a">>
    /\ text = <<"a">> /\ replacement = <<"b">>
    /\ r_file = <<"b", "b", "\n", "b">>

(***************************************************************************)
(* Properties of download_file (SpecDownload).                             *)
(***************************************************************************)
TargetKey == PathKey(local_file_path)

\* C8: for every successful response and every local_file_path, nested in
\* missing directories, in an existing directory or a bare file name, the
\* call creates the missing parent directories before it opens the file
\* and leaves a file whose bytes are the response body.
C8_DownloadedFile ==
    /\ d_pc = "raised" => d_error = "RequestException"
    /\ d_pc \in {"open", "stream", "returned"}
          => IsDir(dirs, SubSeq(TargetKey, 1, Len(TargetKey) - 1))
    /\ d_pc = "returned"
          => (TargetKey \in DOMAIN files /\ files[TargetKey] = d_body)

(***************************************************************************)
(* Properties of create_log_file (SpecLog).                                *)
(***************************************************************************)
Workspace == env[WorkspaceVar]

\* the names of W/logs/runtime_id/service_id.log
ExpectedLogKey == PathKey(Workspace) \o <<<<"logs">>, runtime_id, service_id \o LogExt>>
ExpectedLogDir == SubSeq(ExpectedLogKey, 1, Len(ExpectedLogKey) - 1)

\* C10: with VELOCITAS_WORKSPACE_DIR = W, create_log_file creates every
\* missing parent directory of W/logs/runtime_id/service_id.log, also when
\* they exist already, then returns a handle on that file, emptied whatever
\* it held; with the variable unset or empty it raises ValueError before
\* any directory or file is created or truncated.
C10_CreateLogFile ==
    /\ [](l_pc = "raised"
            => (Workspace \in {Unset, <<>>} /\ l_error = "ValueError"))
    /\ []((l_pc \in {"makedirs", "open", "returned"})
            => Workspace \notin {Unset, <<>>})
    /\ []((l_pc \in {"open", "returned"})
            => (Ancestors(ExpectedLogDir) \subseteq dirs))
    /\ [][ /\ l_pc = "name" => UNCHANGED <<dirs, files>>
           /\ l_pc = "makedirs"
                => (files' = files /\ dirs' = dirs \cup Ancestors(ExpectedLogDir))
           /\ l_pc = "open"
                => /\ l_pc' = "returned"
                   /\ l_handle' = ExpectedLogKey
                   /\ dirs' = dirs
                   /\ DOMAIN files' = DOMAIN files \cup {ExpectedLogKey}
                   /\ files'[ExpectedLogKey] = <<>>
                   /\ \A k \in DOMAIN files \ {ExpectedLogKey} : files'[k] = files[k]
         ]_vars

\* a repeated call: the directories existed, the file held text and is
\* empty again, the log file of the other service is as it was
C10_WitnessRepeatedCall ==
    /\ l_pc = "returned"
    /\ l_before = <<"x", "x">>
    /\ files[l_handle] = <<>>
    /\ \E k \in DOMAIN files : k # l_handle /\ files[k] = <<"x">>

====
